---- MODULE Spec2Model ----
(***************************************************************************)
(* A model of psec, a parser combinator library in Go.                     *)
(*                                                                         *)
(* The state is a Grammar (its symbol table), a stream a client holds     *)
(* (obtained from the driver's initial stream by Tail()), and the outcome  *)
(* of the last call.  Every parser's Parse method is the operator Parse,   *)
(* which dispatches on the parser's type to one operator per Parse method  *)
(* of the source, each following the source's control flow.                *)
(*                                                                         *)
(* Go values are modelled as tagged records: nil, a byte, a string (a      *)
(* sequence of bytes) and a []interface{} (a sequence of values).  A Go    *)
(* panic is the outcome ctl = "panic"; a call that runs out of MaxFuel     *)
(* nested calls and loop iterations is the outcome ctl = "hang".           *)
(***************************************************************************)
EXTENDS Integers, Sequences, FiniteSets, TLC

VARIABLES symbols, ps, ret

vars == <<symbols, ps, ret>>

(***************************** bounds **************************************)

\* Longest input string given to the driver.
MaxLen == 3

\* Nested Parse calls plus loop iterations one call may use before the
\* model reports it as not terminating.
MaxFuel == 14

(***************************** bytes and strings ***************************)

NL == 10
COMMA == 44
CH_A == 97
\* 'A', which only the targets of literals hold.
CH_UA == 65

\* The input alphabet: '\n', ',' and 'a'.
Bytes == {NL, COMMA, CH_A}

\* fmt's %c / %s of one byte.
Chr(b) ==
  CASE b = NL -> "\n"
    [] b = COMMA -> ","
    [] b = CH_A -> "a"
    [] b = CH_UA -> "A"
    [] OTHER -> "?"

RECURSIVE Str(_)
\* fmt's %s of a Go string, held in the model as a sequence of bytes.
Str(s) == IF s = <<>> THEN "" ELSE Chr(Head(s)) \o Str(Tail(s))

RECURSIVE StringsOver(_)
\* Every string of length at most n over Bytes.
StringsOver(n) ==
  IF n = 0 THEN {<<>>}
  ELSE LET shorter == StringsOver(n - 1)
       IN shorter \cup {Append(s, b) : s \in {t \in shorter : Len(t) = n - 1}, b \in Bytes}

Inputs == StringsOver(MaxLen)

(***************************** values **************************************)

NilValue == [t |-> "nil"]
ByteValue(b) == [t |-> "byte", b |-> b]
StringValue(s) == [t |-> "string", s |-> s]
ListValue(l) == [t |-> "list", l |-> l]

(***************************** Loc, parseError *****************************)

NoErr == [nil |-> TRUE]

mkErrorExpectations(l, expected) ==
  [expected |-> expected, message |-> "", loc |-> l]

mkErrorExpect(l, expect) == mkErrorExpectations(l, <<expect>>)

mkErrorMessage(l, msg) ==
  [expected |-> <<>>, message |-> msg, loc |-> l]

RECURSIVE Join(_, _)
\* strings.Join
Join(xs, sep) ==
  IF xs = <<>> THEN ""
  ELSE IF Len(xs) = 1 THEN xs[1]
  ELSE xs[1] \o sep \o Join(Tail(xs), sep)

\* Error() that leaves the message out whenever something was expected.
ErrorWithoutMessage(e) ==
  LET prefix == e.loc.Filename \o " line " \o ToString(e.loc.Line)
                  \o " col " \o ToString(e.loc.Col)
  IN IF Len(e.expected) = 1 THEN prefix \o ": expected " \o e.expected[1]
     ELSE IF Len(e.expected) > 1
       THEN prefix \o ": expected one of " \o Join(e.expected, ", ")
     ELSE prefix \o ": " \o e.message

Error(e) ==
  LET prefix == e.loc.Filename \o " line " \o ToString(e.loc.Line)
                  \o " col " \o ToString(e.loc.Col)
  IN IF Len(e.expected) = 1
       THEN IF e.message = ""
              THEN prefix \o ": expected " \o e.expected[1]
              ELSE prefix \o ": " \o e.message \o ", expected " \o e.expected[1]
     ELSE IF Len(e.expected) > 1
       THEN IF e.message = ""
              THEN prefix \o ": expected one of " \o Join(e.expected, ", ")
              ELSE prefix \o ": " \o e.message \o ", expected one of "
                     \o Join(e.expected, ", ")
     ELSE prefix \o ": " \o e.message

(***************************** stringPS ************************************)

\* A nil Stream.
NoStream == [nil |-> TRUE]

\* The stringPS the driver constructs.  tail is the cached node, nil at first.
NewStream(filename, str) ==
  [str |-> str, pos |-> 0, filename |-> filename, line |-> 1, col |-> 0,
   value |-> NilValue, tail |-> NoStream]

\* Head() (byte, bool): str is 1-indexed here, 0-indexed in Go.
StreamHead(s) ==
  IF s.pos >= Len(s.str) THEN [b |-> 0, eof |-> TRUE]
  ELSE [b |-> s.str[s.pos + 1], eof |-> FALSE]

\* Tail() on a node without a cached tail reads s.str[s.pos], which is out
\* of range at EOF.
TailPanics(s) == s.tail = NoStream /\ s.pos >= Len(s.str)

\* The node Tail() builds when the newline test reads the byte at the new
\* position instead of the byte that was skipped.
NewTailReadsNext(s) ==
  LET t == [str |-> s.str, pos |-> s.pos + 1, filename |-> s.filename,
            line |-> s.line, col |-> s.col, value |-> NilValue,
            tail |-> NoStream]
  IN IF s.pos + 2 <= Len(s.str) /\ s.str[s.pos + 2] = NL
       THEN [t EXCEPT !.line = s.line + 1, !.col = 0]
       ELSE t

\* The node Tail() builds for s when s is not at EOF: the column is copied,
\* and only a newline changes line and column.
NewTail(s) ==
  LET t == [str |-> s.str, pos |-> s.pos + 1, filename |-> s.filename,
            line |-> s.line, col |-> s.col, value |-> NilValue,
            tail |-> NoStream]
  IN IF s.str[s.pos + 1] = NL
       THEN [t EXCEPT !.line = s.line + 1, !.col = 0]
       ELSE t

\* Tail() returning the cached node again, with the newline bump applied to
\* it once more.
StreamTailBumpsCached(s) ==
  IF s.tail = NoStream THEN NewTail(s)
  ELSE IF s.str[s.pos + 1] = NL THEN [s.tail EXCEPT !.line = @ + 1]
  ELSE s.tail

\* Tail() that advances the column by one for every byte but a newline.
StreamTailCountsColumns(s) ==
  IF s.tail # NoStream THEN s.tail
  ELSE IF s.str[s.pos + 1] = NL THEN NewTail(s)
  ELSE [NewTail(s) EXCEPT !.col = s.col + 1]

\* The node Tail() returns: the cached one if there is one, else a new one.
StreamTail(s) == IF s.tail = NoStream THEN NewTail(s) ELSE s.tail

\* The node Tail() assigns to s.tail before it reads s.str[s.pos].
RawTail(s) ==
  [str |-> s.str, pos |-> s.pos + 1, filename |-> s.filename,
   line |-> s.line, col |-> s.col, value |-> NilValue, tail |-> NoStream]

\* The last node of the chain of cached tails that starts at s.
RECURSIVE LastCached(_)
LastCached(s) == IF s.tail = NoStream THEN s ELSE LastCached(s.tail)

\* The chain that starts at s after Tail() was called on its last node.
RECURSIVE CacheTail(_)
CacheTail(s) ==
  IF s.tail # NoStream THEN [s EXCEPT !.tail = CacheTail(s.tail)]
  ELSE IF TailPanics(s) THEN [s EXCEPT !.tail = RawTail(s)]
  ELSE [s EXCEPT !.tail = NewTail(s)]

Value(s) == s.value

SetValue(s, v) == [s EXCEPT !.value = v]

Loc(s) == [Filename |-> s.filename, Line |-> s.line, Col |-> s.col]

(***************************** results of Parse ****************************)

\* Parse returns (Stream, *parseError), panics, or does not return.
Return(s, e) == [ctl |-> "return", stream |-> s, err |-> e, panic |-> ""]
Succeed(s) == Return(s, NoErr)
Fail(e) == Return(NoStream, e)
PanicWith(why) == [ctl |-> "panic", stream |-> NoStream, err |-> NoErr, panic |-> why]
Hang == [ctl |-> "hang", stream |-> NoStream, err |-> NoErr, panic |-> ""]

\* pSymbol.Parse's panic, and the runtime errors of the parsers: a method
\* called on a nil Stream, x.(T) on a value that is no T, and an index past
\* the end of the string.
Panic == PanicWith("no symbol")
NilDereference == PanicWith("nil pointer dereference")
BadTypeAssertion == PanicWith("interface conversion")
IndexOutOfRange == PanicWith("index out of range")

\* ps.Tail().SetValue(v) as the result of a Parse.
TailSetValue(s, v) ==
  IF TailPanics(s) THEN IndexOutOfRange ELSE Succeed(SetValue(StreamTail(s), v))

Returned(r) == r.ctl = "return"
Succeeded(r) == r.ctl = "return" /\ r.stream # NoStream
Failed(r) == r.ctl = "return" /\ r.stream = NoStream

(***************************** parsers *************************************)

Literal(str) == [type |-> "Literal", target |-> str]
LiteralIC(str) == [type |-> "LiteralIC", target |-> str]
Alt(parsers) == [type |-> "Alt", parsers |-> parsers]
\* Seq (the name is taken by the Sequences module).
SeqP(parsers) == [type |-> "Seq", parsers |-> parsers]
SeqAt(index, parsers) == [type |-> "SeqAt", parsers |-> parsers, index |-> index]
Optional(p) == [type |-> "Optional", inner |-> p]
AnyChar == [type |-> "AnyChar"]
OneOf(options) == [type |-> "OneOf", options |-> options]
NoneOf(blacklist) == [type |-> "NoneOf", blacklist |-> blacklist]
Range(lo, hi) == [type |-> "Range", lo |-> lo, hi |-> hi]
ManyMin(p, min) == [type |-> "Many", inner |-> p, min |-> min, capture |-> TRUE]
Many(p) == ManyMin(p, 0)
Many1(p) == ManyMin(p, 1)
ManyDrop(p) == [type |-> "Many", inner |-> p, min |-> 0, capture |-> FALSE]
SepBy(p, sep) == [type |-> "SepBy", inner |-> p, sep |-> sep, min |-> 0]
SepBy1(p, sep) == [type |-> "SepBy", inner |-> p, sep |-> sep, min |-> 1]
EndBy(p, sep) == [type |-> "EndBy", inner |-> p, sep |-> sep, min |-> 0]
EndBy1(p, sep) == [type |-> "EndBy", inner |-> p, sep |-> sep, min |-> 1]
ManyTill(inner, terminator) ==
  [type |-> "ManyTill", inner |-> inner, terminator |-> terminator]
parserWithAction(p, act) == [type |-> "WithAction", inner |-> p, action |-> act]
Stringify(p) == parserWithAction(p, "stringify")
Symbol(name) == [type |-> "Symbol", name |-> name]

(***************************** actions *************************************)

\* The result of an Action: (value, error); error is "" for nil.
ActionReturn(v, e) == [ctl |-> "return", value |-> v, error |-> e]
ActionPanic == [ctl |-> "panic", value |-> NilValue, error |-> ""]

\* The Action functions of the model: Stringify's closure, the action of the
\* JSON grammar's "null" rule, and a user action that reports an error.
Actions == {"stringify", "null", "reject"}

RunAction(act, raw) ==
  CASE act = "stringify" ->
         IF raw.t # "list" THEN ActionPanic
         ELSE IF \E i \in 1..Len(raw.l) : raw.l[i].t # "byte" THEN ActionPanic
         ELSE ActionReturn(StringValue([i \in 1..Len(raw.l) |-> raw.l[i].b]), "")
    [] act = "null" -> ActionReturn(NilValue, "")
    [] OTHER -> ActionReturn(NilValue, "rejected")

(***************************** Parse ***************************************)

RECURSIVE Parse(_, _, _, _)

RECURSIVE LiteralLoop(_, _, _)
LiteralLoop(p, s, i) ==
  IF i < Len(p.target)
    THEN LET h == StreamHead(s)
         IN IF h.eof \/ p.target[i + 1] # h.b
              THEN Fail(mkErrorExpect(Loc(s), "literal '" \o Str(p.target) \o "'"))
              ELSE IF TailPanics(s) THEN IndexOutOfRange
              ELSE LiteralLoop(p, StreamTail(s), i + 1)
    ELSE Succeed(SetValue(s, StringValue(p.target)))

\* pLiteral.Parse reporting a mismatch at the location Literal was entered.
pLiteralParseAtEntry(p, s, g, fuel) ==
  LET r == LiteralLoop(p, s, 0)
  IN IF Failed(r) THEN Fail([r.err EXCEPT !.loc = Loc(s)]) ELSE r

pLiteralParse(p, s, g, fuel) == LiteralLoop(p, s, 0)

\* strings.ToUpper on one ASCII byte.
ToUpper(b) == IF 97 <= b /\ b <= 122 THEN b - 32 ELSE b

RECURSIVE LiteralICLoop(_, _, _)
LiteralICLoop(p, s, i) ==
  IF i < Len(p.target)
    THEN LET h == StreamHead(s)
         IN IF h.eof \/ ToUpper(p.target[i + 1]) # ToUpper(h.b)
              THEN Fail(mkErrorExpect(Loc(s), "literal '" \o Str(p.target) \o "'"))
              ELSE IF TailPanics(s) THEN IndexOutOfRange
              ELSE LiteralICLoop(p, StreamTail(s), i + 1)
    ELSE Succeed(SetValue(s, StringValue(p.target)))

pLiteralICParse(p, s, g, fuel) == LiteralICLoop(p, s, 0)

RECURSIVE AllExpectations(_)
\* The second loop of pAlt.Parse: exps = append(exps, err.expected...).
AllExpectations(errs) ==
  IF errs = <<>> THEN <<>> ELSE Head(errs).expected \o AllExpectations(Tail(errs))

RECURSIVE AltLoop(_, _, _, _, _, _)
AltLoop(p, s, g, fuel, i, errs) ==
  IF i > Len(p.parsers)
    THEN IF \E k \in 1..Len(errs) : errs[k] = NoErr
           THEN NilDereference
           ELSE Fail(mkErrorExpectations(Loc(s), AllExpectations(errs)))
    ELSE LET r == Parse(p.parsers[i], s, g, fuel)
         IN IF ~Returned(r) THEN r
            ELSE IF r.stream # NoStream THEN Return(r.stream, NoErr)
            ELSE AltLoop(p, s, g, fuel, i + 1, Append(errs, r.err))

\* pAlt.Parse with a longest-match rule: every child is tried and the success
\* that consumed most wins.
pAltParseLongest(p, s, g, fuel) ==
  LET res == [i \in 1..Len(p.parsers) |-> Parse(p.parsers[i], s, g, fuel)]
      won == {i \in 1..Len(p.parsers) : Succeeded(res[i])}
  IN IF won = {} \/ \E i \in 1..Len(p.parsers) : ~Returned(res[i])
       THEN AltLoop(p, s, g, fuel, 1, <<>>)
       ELSE LET best == CHOOSE i \in won :
                          \A j \in won : \/ res[j].stream.pos < res[i].stream.pos
                                         \/ (res[j].stream.pos = res[i].stream.pos /\ i <= j)
            IN Return(res[best].stream, NoErr)

\* pAlt.Parse reporting, when every child fails, the last child's error
\* instead of the merged expectations.
pAltParseLastError(p, s, g, fuel) ==
  LET r == AltLoop(p, s, g, fuel, 1, <<>>)
  IN IF Failed(r) /\ Len(p.parsers) > 0
       THEN Parse(p.parsers[Len(p.parsers)], s, g, fuel)
       ELSE r

RECURSIVE FirstExpectations(_)
\* The first expected fragment of each error that has one.
FirstExpectations(errs) ==
  IF errs = <<>> THEN <<>>
  ELSE (IF Head(errs).expected = <<>> THEN <<>> ELSE <<Head(errs).expected[1]>>)
         \o FirstExpectations(Tail(errs))

RECURSIVE AltLoopFirstFragments(_, _, _, _, _, _)
AltLoopFirstFragments(p, s, g, fuel, i, errs) ==
  IF i > Len(p.parsers)
    THEN IF \E k \in 1..Len(errs) : errs[k] = NoErr
           THEN NilDereference
           ELSE Fail(mkErrorExpectations(Loc(s), FirstExpectations(errs)))
    ELSE LET r == Parse(p.parsers[i], s, g, fuel)
         IN IF ~Returned(r) THEN r
            ELSE IF r.stream # NoStream THEN Return(r.stream, NoErr)
            ELSE AltLoopFirstFragments(p, s, g, fuel, i + 1, Append(errs, r.err))

\* pAlt.Parse that keeps of every child's error its first expected fragment
\* only.
pAltParseFirstFragments(p, s, g, fuel) == AltLoopFirstFragments(p, s, g, fuel, 1, <<>>)

pAltParse(p, s, g, fuel) == AltLoop(p, s, g, fuel, 1, <<>>)

RECURSIVE SeqLoop(_, _, _, _, _, _)
SeqLoop(p, s, g, fuel, i, out) ==
  IF i > Len(p.parsers)
    THEN Succeed(SetValue(s, ListValue(out)))
    ELSE LET r == Parse(p.parsers[i], s, g, fuel)
         IN IF ~Returned(r) THEN r
            ELSE IF r.err # NoErr THEN Fail(r.err)
            ELSE IF r.stream = NoStream THEN NilDereference
            ELSE SeqLoop(p, r.stream, g, fuel, i + 1,
                         [out EXCEPT ![i] = Value(r.stream)])

\* pSeq.Parse reporting a child's failure at the location Seq was entered.
pSeqParseAtEntry(p, s, g, fuel) ==
  LET r == SeqLoop(p, s, g, fuel, 1, [k \in 1..Len(p.parsers) |-> NilValue])
  IN IF Failed(r) THEN Fail([r.err EXCEPT !.loc = Loc(s)]) ELSE r

pSeqParse(p, s, g, fuel) ==
  SeqLoop(p, s, g, fuel, 1, [k \in 1..Len(p.parsers) |-> NilValue])

RECURSIVE SeqAtLoop(_, _, _, _, _, _)
\* i counts from 1 here; p.index counts from 0 as in Go.
SeqAtLoop(p, s, g, fuel, i, v) ==
  IF i > Len(p.parsers)
    THEN Succeed(SetValue(s, v))
    ELSE LET r == Parse(p.parsers[i], s, g, fuel)
         IN IF ~Returned(r) THEN r
            ELSE IF r.err # NoErr THEN Fail(r.err)
            ELSE IF r.stream = NoStream THEN NilDereference
            ELSE SeqAtLoop(p, r.stream, g, fuel, i + 1,
                           IF i - 1 = p.index THEN Value(r.stream) ELSE v)

pSeqAtParse(p, s, g, fuel) == SeqAtLoop(p, s, g, fuel, 1, NilValue)

\* pOptional.Parse handing the inner parser's failure on.
pOptionalParseStrict(p, s, g, fuel) == Parse(p.inner, s, g, fuel)

pOptionalParse(p, s, g, fuel) ==
  LET r == Parse(p.inner, s, g, fuel)
  IN IF ~Returned(r) THEN r
     ELSE IF r.stream # NoStream THEN Return(r.stream, NoErr)
     ELSE Succeed(SetValue(s, NilValue))

\* pAnyChar.Parse without the test of eof.
pAnyCharParseNoEOF(p, s, g, fuel) == TailSetValue(s, ByteValue(StreamHead(s).b))

pAnyCharParse(p, s, g, fuel) ==
  LET h == StreamHead(s)
  IN IF h.eof THEN Fail(mkErrorMessage(Loc(s), "unexpected EOF"))
     ELSE TailSetValue(s, ByteValue(h.b))

pOneOfParse(p, s, g, fuel) ==
  LET h == StreamHead(s)
  IN IF h.eof
       THEN Fail(mkErrorMessage(Loc(s),
              "unexpected EOF, expected one of '" \o Str(p.options) \o "'"))
     ELSE IF \E i \in 1..Len(p.options) : h.b = p.options[i]
       THEN TailSetValue(s, ByteValue(h.b))
     ELSE Fail(mkErrorMessage(Loc(s), "expected one of: " \o Str(p.options)))

pNoneOfParse(p, s, g, fuel) ==
  LET h == StreamHead(s)
  IN IF h.eof THEN Fail(mkErrorMessage(Loc(s), "unexpected EOF"))
     ELSE IF \E i \in 1..Len(p.blacklist) : h.b = p.blacklist[i]
       THEN Fail(mkErrorMessage(Loc(s), "unexpected " \o Chr(h.b)))
     ELSE TailSetValue(s, ByteValue(h.b))

\* pRange.Parse with hi excluded from the range.
pRangeParseExclusive(p, s, g, fuel) ==
  LET h == StreamHead(s)
  IN IF ~h.eof /\ p.lo <= h.b /\ h.b < p.hi
       THEN TailSetValue(s, ByteValue(h.b))
       ELSE Fail(mkErrorExpect(Loc(s),
              "range(" \o Chr(p.lo) \o ".." \o Chr(p.hi) \o ")"))

pRangeParse(p, s, g, fuel) ==
  LET h == StreamHead(s)
  IN IF ~h.eof /\ p.lo <= h.b /\ h.b <= p.hi
       THEN TailSetValue(s, ByteValue(h.b))
       ELSE Fail(mkErrorExpect(Loc(s),
              "range(" \o Chr(p.lo) \o ".." \o Chr(p.hi) \o ")"))

\* The state of the loop of pMany.Parse when it is left.
RECURSIVE ManyLoop(_, _, _, _, _, _)
ManyLoop(p, s, g, fuel, results, found) ==
  IF fuel = 0 THEN [ctl |-> "hang", panic |-> "", ps |-> s,
                  results |-> results, found |-> found, err |-> NoErr]
  ELSE LET r == Parse(p.inner, s, g, fuel - 1)
       IN IF ~Returned(r)
            THEN [ctl |-> r.ctl, panic |-> r.panic, ps |-> s,
                  results |-> results, found |-> found, err |-> NoErr]
          ELSE IF r.err # NoErr
            THEN [ctl |-> "return", panic |-> "", ps |-> s,
                  results |-> results, found |-> found, err |-> r.err]
          ELSE IF r.stream = NoStream
            THEN [ctl |-> "panic", panic |-> NilDereference.panic, ps |-> s,
                  results |-> results, found |-> found, err |-> NoErr]
          ELSE ManyLoop(p, r.stream, g, fuel - 1,
                        IF p.capture THEN Append(results, Value(r.stream)) ELSE results,
                        found + 1)

\* pMany.Parse comparing found <= p.min: one match more than min is needed.
pManyParseOffByOne(p, s, g, fuel) ==
  LET l == ManyLoop(p, s, g, fuel, <<>>, 0)
  IN IF l.ctl = "panic" THEN PanicWith(l.panic)
     ELSE IF l.ctl = "hang" THEN Hang
     ELSE IF l.found <= p.min
       THEN Fail([loc |-> Loc(l.ps),
                  message |-> "minimum " \o ToString(p.min),
                  expected |-> l.err.expected])
     ELSE IF p.capture THEN Succeed(SetValue(l.ps, ListValue(l.results)))
     ELSE Succeed(SetValue(l.ps, NilValue))

pManyParse(p, s, g, fuel) ==
  LET l == ManyLoop(p, s, g, fuel, <<>>, 0)
  IN IF l.ctl = "panic" THEN PanicWith(l.panic)
     ELSE IF l.ctl = "hang" THEN Hang
     ELSE IF l.found < p.min
       THEN Fail([loc |-> Loc(l.ps),
                  message |-> "minimum " \o ToString(p.min),
                  expected |-> l.err.expected])
     ELSE IF p.capture THEN Succeed(SetValue(l.ps, ListValue(l.results)))
     ELSE Succeed(SetValue(l.ps, NilValue))

\* fmt's %v of the error a loop holds.
FormatErr(e) == IF e = NoErr THEN "<nil>" ELSE Error(e)

\* The state of the loop of pSepBy.Parse when it is left: s is ps at the
\* loop's head, whose condition is ps != nil.
RECURSIVE SepByLoop(_, _, _, _, _, _, _)
SepByLoop(p, s, last, err, results, g, fuel) ==
  IF s = NoStream
    THEN [ctl |-> "return", panic |-> "", ps |-> s, last |-> last, err |-> err, results |-> results]
  ELSE IF fuel = 0
    THEN [ctl |-> "hang", panic |-> "", ps |-> s, last |-> last, err |-> err, results |-> results]
  ELSE LET r == Parse(p.inner, s, g, fuel - 1)
       IN IF ~Returned(r)
            THEN [ctl |-> r.ctl, panic |-> r.panic, ps |-> s, last |-> s, err |-> err, results |-> results]
          ELSE IF r.stream = NoStream
            THEN [ctl |-> "return", panic |-> "", ps |-> NoStream, last |-> s, err |-> r.err,
                  results |-> results]
          ELSE LET r2 == Parse(p.sep, r.stream, g, fuel - 1)
               IN IF ~Returned(r2)
                    THEN [ctl |-> r2.ctl, panic |-> r2.panic, ps |-> r.stream, last |-> r.stream, err |-> r.err,
                          results |-> results]
                    ELSE SepByLoop(p, r2.stream, r.stream, r2.err,
                                   Append(results, Value(r.stream)), g, fuel - 1)

pSepByParse(p, s, g, fuel) ==
  LET l == SepByLoop(p, s, NoStream, NoErr, <<>>, g, fuel)
  IN IF l.ctl = "panic" THEN PanicWith(l.panic)
     ELSE IF l.ctl = "hang" THEN Hang
     ELSE IF p.min > Len(l.results)
       THEN IF l.ps = NoStream THEN NilDereference
            ELSE Fail(mkErrorMessage(Loc(l.ps),
                   "expected at least " \o ToString(p.min) \o ": " \o FormatErr(l.err)))
     ELSE IF l.last = NoStream THEN NilDereference
     ELSE Succeed(SetValue(l.last, ListValue(l.results)))

\* The state of the loop of pEndBy.Parse when it is left.
RECURSIVE EndByLoop(_, _, _, _, _, _, _)
EndByLoop(p, s, last, err, results, g, fuel) ==
  IF s = NoStream
    THEN [ctl |-> "return", panic |-> "", ps |-> s, last |-> last, err |-> err, results |-> results]
  ELSE IF fuel = 0
    THEN [ctl |-> "hang", panic |-> "", ps |-> s, last |-> last, err |-> err, results |-> results]
  ELSE LET r == Parse(p.inner, s, g, fuel - 1)
       IN IF ~Returned(r)
            THEN [ctl |-> r.ctl, panic |-> r.panic, ps |-> s, last |-> s, err |-> err, results |-> results]
          ELSE IF r.stream = NoStream
            THEN [ctl |-> "return", panic |-> "", ps |-> NoStream, last |-> s, err |-> r.err,
                  results |-> results]
          ELSE LET r2 == Parse(p.sep, r.stream, g, fuel - 1)
               IN IF ~Returned(r2)
                    THEN [ctl |-> r2.ctl, panic |-> r2.panic, ps |-> r.stream, last |-> s, err |-> r.err,
                          results |-> results]
                    ELSE EndByLoop(p, r2.stream, s, r2.err,
                                   Append(results, Value(r.stream)), g, fuel - 1)

pEndByParse(p, s, g, fuel) ==
  LET l == EndByLoop(p, s, NoStream, NoErr, <<>>, g, fuel)
  IN IF l.ctl = "panic" THEN PanicWith(l.panic)
     ELSE IF l.ctl = "hang" THEN Hang
     ELSE IF p.min > Len(l.results)
       THEN IF l.ps = NoStream THEN NilDereference
            ELSE Fail(mkErrorMessage(Loc(l.ps),
                   "expected at least " \o ToString(p.min) \o ": " \o FormatErr(l.err)))
     ELSE IF l.last = NoStream THEN NilDereference
     ELSE Succeed(SetValue(l.last, ListValue(l.results)))

RECURSIVE ManyTillLoop(_, _, _, _, _)
ManyTillLoop(p, s, g, fuel, results) ==
  IF fuel = 0 THEN Hang
  ELSE LET tr == Parse(p.terminator, s, g, fuel - 1)
       IN IF ~Returned(tr) THEN tr
          ELSE IF tr.stream # NoStream
            THEN Succeed(SetValue(tr.stream, ListValue(results)))
          ELSE LET r == Parse(p.inner, s, g, fuel - 1)
               IN IF ~Returned(r) THEN r
                  ELSE IF r.err # NoErr
                    THEN IF r.stream = NoStream THEN NilDereference
                         ELSE Fail(mkErrorMessage(Loc(r.stream),
                                "failed to parse many " \o Error(r.err)))
                  ELSE IF r.stream = NoStream THEN NilDereference
                  ELSE ManyTillLoop(p, r.stream, g, fuel - 1,
                                    Append(results, Value(r.stream)))

RECURSIVE ManyTillGreedyLoop(_, _, _, _, _)
\* The loop of pManyTill.Parse with the body tried first: the terminator is
\* tried only where the body fails.
ManyTillGreedyLoop(p, s, g, fuel, results) ==
  IF fuel = 0 THEN Hang
  ELSE LET r == Parse(p.inner, s, g, fuel - 1)
       IN IF ~Returned(r) THEN r
          ELSE IF r.stream # NoStream
            THEN ManyTillGreedyLoop(p, r.stream, g, fuel - 1,
                                    Append(results, Value(r.stream)))
          ELSE LET tr == Parse(p.terminator, s, g, fuel - 1)
               IN IF ~Returned(tr) THEN tr
                  ELSE IF tr.stream # NoStream
                    THEN Succeed(SetValue(tr.stream, ListValue(results)))
                  ELSE Fail(mkErrorMessage(Loc(s),
                         "failed to parse many " \o Error(r.err)))

pManyTillParseGreedy(p, s, g, fuel) == ManyTillGreedyLoop(p, s, g, fuel, <<>>)

pManyTillParse(p, s, g, fuel) == ManyTillLoop(p, s, g, fuel, <<>>)

pWithActionParse(p, s, g, fuel) ==
  LET r == Parse(p.inner, s, g, fuel)
  IN IF ~Returned(r) THEN r
     ELSE IF r.err # NoErr THEN Fail(r.err)
     ELSE IF r.stream = NoStream THEN NilDereference
     ELSE LET a == RunAction(p.action, Value(r.stream))
          IN IF a.ctl = "panic" THEN BadTypeAssertion
             ELSE IF a.error # "" THEN Fail(mkErrorMessage(Loc(r.stream), a.error))
             ELSE Succeed(SetValue(r.stream, a.value))

\* An undefined name is a panic.
pSymbolParse(p, s, g, fuel) ==
  IF p.name \in DOMAIN g THEN Parse(g[p.name], s, g, fuel) ELSE Panic

\* Parser.Parse: the method of p's dynamic type.  Each call uses one unit of fuel.
Parse(p, s, g, fuel) ==
  IF fuel = 0 THEN Hang
  ELSE CASE p.type = "Literal" -> pLiteralParse(p, s, g, fuel - 1)
         [] p.type = "LiteralIC" -> pLiteralICParse(p, s, g, fuel - 1)
         [] p.type = "Alt" -> pAltParse(p, s, g, fuel - 1)
         [] p.type = "Seq" -> pSeqParse(p, s, g, fuel - 1)
         [] p.type = "SeqAt" -> pSeqAtParse(p, s, g, fuel - 1)
         [] p.type = "Optional" -> pOptionalParse(p, s, g, fuel - 1)
         [] p.type = "AnyChar" -> pAnyCharParse(p, s, g, fuel - 1)
         [] p.type = "OneOf" -> pOneOfParse(p, s, g, fuel - 1)
         [] p.type = "NoneOf" -> pNoneOfParse(p, s, g, fuel - 1)
         [] p.type = "Range" -> pRangeParse(p, s, g, fuel - 1)
         [] p.type = "Many" -> pManyParse(p, s, g, fuel - 1)
         [] p.type = "SepBy" -> pSepByParse(p, s, g, fuel - 1)
         [] p.type = "EndBy" -> pEndByParse(p, s, g, fuel - 1)
         [] p.type = "ManyTill" -> pManyTillParse(p, s, g, fuel - 1)
         [] p.type = "WithAction" -> pWithActionParse(p, s, g, fuel - 1)
         [] p.type = "Symbol" -> pSymbolParse(p, s, g, fuel - 1)

(***************************** Grammar *************************************)

\* The symbol table is a map: a function whose domain is the defined names.
NewGrammar == <<>>

SetSymbol(table, name, p) ==
  [n \in DOMAIN table \cup {name} |-> IF n = name THEN p ELSE table[n]]

\* The outcome of a Grammar method that returns nothing.
Done(op) == [op |-> op, ctl |-> "return"]

\* AddAction: the table it leaves and how it ends.  The panic follows the
\* if statement, whichever branch was taken.
AddActionTable(table, name, action) ==
  IF name \in DOMAIN table
    THEN SetSymbol(table, name, parserWithAction(table[name], action))
    ELSE table

AddActionOutcome(table, name, action) ==
  [op |-> "AddAction", ctl |-> "panic", name |-> name, action |-> action,
   before |-> table]

\* ParseStringWith's return (interface{}, error), or its panic.
DriverReturn(str, startSym, v, e) ==
  [op |-> "ParseStringWith", ctl |-> "return", str |-> str, startSym |-> startSym,
   value |-> v, err |-> e]
DriverAbort(str, startSym, ctl) ==
  [op |-> "ParseStringWith", ctl |-> ctl, str |-> str, startSym |-> startSym,
   value |-> NilValue, err |-> NoErr]

\* ParseStringWith that does not require EOF of the returned stream.
ParseStringWithNoEOF(table, filename, str, startSym) ==
  LET s0 == NewStream(filename, str)
  IN IF startSym \in DOMAIN table
       THEN LET r == Parse(table[startSym], s0, table, MaxFuel)
            IN IF ~Returned(r) THEN DriverAbort(str, startSym, r.ctl)
               ELSE IF r.err # NoErr THEN DriverReturn(str, startSym, NilValue, r.err)
               ELSE DriverReturn(str, startSym, Value(r.stream), NoErr)
       ELSE DriverAbort(str, startSym, "panic")

ParseStringWith(table, filename, str, startSym) ==
  LET s0 == NewStream(filename, str)
  IN IF startSym \in DOMAIN table
       THEN LET r == Parse(table[startSym], s0, table, MaxFuel)
            IN IF ~Returned(r) THEN DriverAbort(str, startSym, r.ctl)
               ELSE IF r.err # NoErr THEN DriverReturn(str, startSym, NilValue, r.err)
               ELSE IF r.stream = NoStream THEN DriverAbort(str, startSym, "panic")
               ELSE IF ~StreamHead(r.stream).eof
                 THEN DriverReturn(str, startSym, NilValue,
                        mkErrorMessage(Loc(r.stream),
                          "incomplete parse, expected EOF but input remains"))
               ELSE DriverReturn(str, startSym, Value(r.stream), NoErr)
       ELSE DriverAbort(str, startSym, "panic")

ParseString(table, filename, str) == ParseStringWith(table, filename, str, "START")

(***************************** inputs **************************************)

Lit(b) == Literal(<<b>>)
LowerA == Range(CH_A, CH_A)

\* The (name, parser) pairs given to AddSymbol.
Rules ==
  { <<"START", SepBy(Symbol("item"), Lit(COMMA))>>,
    <<"item", Lit(CH_A)>> }

\* The (name, parser, action) triples given to WithAction.
ActionRules ==
  { <<"item", Many1(LowerA), "stringify">>,
    <<"START", Lit(CH_A), "reject">> }

\* The maps given to AddSymbols.
RuleMaps ==
  { [n \in {"START", "item"} |->
       IF n = "START" THEN EndBy(Symbol("item"), Lit(NL)) ELSE Lit(CH_A)] }

Names == {"START", "item"}

StartNames == Names \cup {"expr"}

\* The parsers applied directly to the client's stream.
Parsers ==
  { Lit(CH_A), Literal(<<CH_A, CH_A>>), Literal(<<CH_A, COMMA>>), Lit(NL),
    LiteralIC(<<CH_A>>),
    Literal(<<NL, CH_A>>), LiteralIC(<<NL, CH_UA, CH_UA>>),
    AnyChar, OneOf(<<COMMA, NL>>), NoneOf(<<COMMA>>), LowerA,
    Range(COMMA, CH_A),
    Alt(<<>>),
    Alt(<<Lit(CH_A), Literal(<<CH_A, CH_A>>)>>),
    Alt(<<Literal(<<CH_A, COMMA>>), Lit(CH_A), Literal(<<CH_A, CH_A>>)>>),
    Alt(<<OneOf(<<COMMA>>), NoneOf(<<COMMA, CH_A>>)>>),
    Alt(<<Alt(<<Lit(COMMA), LowerA>>), Lit(NL)>>),
    Alt(<<Alt(<<Literal(<<CH_A, COMMA>>), Lit(CH_A)>>), Literal(<<CH_A, CH_A>>)>>),
    SeqP(<<>>),
    SeqP(<<Lit(CH_A), Lit(COMMA)>>),
    SeqP(<<Lit(COMMA), SepBy1(Lit(CH_A), Lit(COMMA))>>),
    SeqP(<<AnyChar, Optional(Lit(COMMA)), AnyChar>>),
    SeqAt(1, <<Lit(CH_A), AnyChar>>),
    SeqAt(0, <<Many(LowerA), Lit(COMMA)>>),
    Optional(Lit(CH_A)),
    Optional(Literal(<<CH_A, COMMA>>)),
    Optional(SepBy1(Lit(CH_A), Lit(COMMA))),
    Many(LowerA), Many1(LowerA), ManyDrop(AnyChar),
    Many(Optional(Lit(CH_A))),
    ManyMin(Alt(<<Lit(NL), LowerA>>), 2),
    Stringify(Many(LowerA)),
    SepBy(Lit(CH_A), Lit(COMMA)), SepBy1(Lit(CH_A), Lit(COMMA)),
    SepBy(AnyChar, Optional(Lit(COMMA))),
    EndBy(Lit(CH_A), Lit(COMMA)), EndBy1(Lit(CH_A), Lit(COMMA)),
    EndBy(AnyChar, Lit(NL)),
    ManyTill(AnyChar, Lit(COMMA)),
    Symbol("item"), Symbol("START") }

Filename == "test"

(***************************** the state machine ***************************)

\* NewGrammar(): an empty table; the client holds no stream yet.
Init ==
  /\ symbols = NewGrammar
  /\ ps = NoStream
  /\ ret = Done("NewGrammar")

\* A panic ends the program, and so does a call that does not return.
Running == ret.ctl = "return"

\* The client builds its grammar, then gives one input to the driver, then
\* walks the driver's stream: the table is mutable only during construction,
\* and a driver call depends on nothing an earlier one left behind.
Building == ps = NoStream

AddSymbol(name, p) ==
  /\ Running
  /\ Building
  /\ symbols' = SetSymbol(symbols, name, p)
  /\ ret' = Done("AddSymbol")
  /\ UNCHANGED ps

\* AddSymbol for each entry of the map; the entries have distinct names,
\* so the order of the iteration does not show.
AddSymbols(syms) ==
  /\ Running
  /\ Building
  /\ symbols' = [n \in DOMAIN symbols \cup DOMAIN syms |->
                   IF n \in DOMAIN syms THEN syms[n] ELSE symbols[n]]
  /\ ret' = Done("AddSymbols")
  /\ UNCHANGED ps

WithAction(name, p, action) ==
  /\ Running
  /\ Building
  /\ symbols' = SetSymbol(symbols, name, parserWithAction(p, action))
  /\ ret' = Done("WithAction")
  /\ UNCHANGED ps

AddAction(name, action) ==
  /\ Running
  /\ Building
  /\ symbols' = AddActionTable(symbols, name, action)
  /\ ret' = AddActionOutcome(symbols, name, action)
  /\ UNCHANGED ps

\* The driver; ps becomes the stream it constructed.
CallParseStringWith(str, startSym) ==
  /\ Running
  /\ Building
  /\ ret' = ParseStringWith(symbols, Filename, str, startSym)
  /\ ps' = NewStream(Filename, str)
  /\ UNCHANGED symbols

CallParseString(str) ==
  /\ Running
  /\ Building
  /\ ret' = ParseString(symbols, Filename, str)
  /\ ps' = NewStream(Filename, str)
  /\ UNCHANGED symbols

\* The client calls ps.Tail().
CallTail ==
  /\ Running
  /\ ps # NoStream
  /\ IF TailPanics(ps)
       THEN ps' = CacheTail(ps) /\ ret' = [op |-> "Tail", ctl |-> "panic"]
       ELSE ps' = StreamTail(ps) /\ ret' = Done("Tail")
  /\ UNCHANGED symbols

\* The client calls Tail() on the last node it reached from ps and keeps ps:
\* the chain of cached tails behind ps grows by one node.
CallTailKeep ==
  /\ Running
  /\ ps # NoStream
  /\ ps' = CacheTail(ps)
  /\ ret' = IF TailPanics(LastCached(ps)) THEN [op |-> "Tail", ctl |-> "panic"]
            ELSE Done("Tail")
  /\ UNCHANGED symbols

\* The client calls p.Parse(ps, g.symbols), once for each node it holds.
CallParse(p) ==
  /\ Running
  /\ ps # NoStream
  /\ ret.op \notin {"Parse", "Error"}
  /\ ret' = [op |-> "Parse", parser |-> p] @@ Parse(p, ps, symbols, MaxFuel)
  /\ UNCHANGED <<symbols, ps>>

\* The client calls Error() on the parse error it was returned.
CallError ==
  /\ Running
  /\ ret.op \in {"Parse", "ParseStringWith"}
  /\ ret.err # NoErr
  /\ ret' = [op |-> "Error", ctl |-> "return", err |-> ret.err,
             text |-> Error(ret.err)]
  /\ UNCHANGED <<symbols, ps>>

\* The operations on grammars, streams and parsers.
Operate ==
  \/ \E r \in Rules : AddSymbol(r[1], r[2])
  \/ \E m \in RuleMaps : AddSymbols(m)
  \/ \E r \in ActionRules : WithAction(r[1], r[2], r[3])
  \/ \E n \in Names, a \in {"null"} : AddAction(n, a)
  \/ \E str \in Inputs, n \in StartNames : CallParseStringWith(str, n)
  \/ \E str \in Inputs : CallParseString(str)
  \/ CallTail
  \/ \E p \in Parsers : CallParse(p)

Next == Operate \/ CallError

Spec == Init /\ [][Next]_vars

\* The clients that also keep a node while they call Tail() behind it.
NextCache == Operate \/ CallTailKeep

SpecCache == Init /\ [][NextCache]_vars

\* The (name, parser) pairs of the grammars whose START only the driver
\* runs: repetitions over a body or a separator that succeeds on no input,
\* and alternatives whose children fail with a message alone.
DriverRules ==
  { <<"item", Lit(CH_A)>>,
    <<"START", Many(Optional(Symbol("item")))>>,
    <<"START", SepBy(Optional(Symbol("item")), Optional(Lit(COMMA)))>>,
    <<"START", ManyTill(Optional(Symbol("item")), Lit(COMMA))>>,
    <<"START", Many1(Symbol("item"))>>,
    <<"START", Alt(<<OneOf(<<COMMA>>), NoneOf(<<COMMA, CH_A>>)>>)>>,
    <<"START", Alt(<<>>)>>,
    <<"START", SeqP(<<Symbol("item"), Alt(<<AnyChar, Lit(NL)>>)>>)>> }

\* The clients that build a grammar and run the driver on an input.
NextDriver ==
  \/ \E r \in DriverRules : AddSymbol(r[1], r[2])
  \/ \E str \in Inputs, n \in StartNames : CallParseStringWith(str, n)
  \/ \E str \in Inputs : CallParseString(str)
  \/ CallError

SpecDriver == Init /\ [][NextDriver]_vars

(***************************** properties **********************************)

\* The last call was p.Parse(ps, symbols) for a parser p of type t.
IsParse(t) == ret.op = "Parse" /\ ret.parser.type = t

\* What a parser returns on a stream under the current table.
Apply(p, s) == Parse(p, s, symbols, MaxFuel)

RECURSIVE AfterElements(_, _, _, _)
\* Where p (sep p)* ends when an element has just ended at s: after the last
\* element that matched, before a separator no element follows.
AfterElements(inner, sep, s, n) ==
  IF n = 0 THEN s
  ELSE LET r2 == Apply(sep, s)
       IN IF ~Succeeded(r2) THEN s
          ELSE LET r == Apply(inner, r2.stream)
               IN IF ~Succeeded(r) THEN s
                  ELSE AfterElements(inner, sep, r.stream, n - 1)

\* C1: SepBy and SepBy1 never consume a trailing separator: the stream they
\* return is positioned right after the last element that matched.
C1_NoTrailingSeparator ==
  (IsParse("SepBy") /\ Succeeded(ret)) =>
    LET first == Apply(ret.parser.inner, ps)
    IN ret.stream.pos =
         IF Succeeded(first)
           THEN AfterElements(ret.parser.inner, ret.parser.sep, first.stream, MaxFuel).pos
           ELSE ps.pos

RECURSIVE SymbolsOf(_)
\* The names a parser refers to.
SymbolsOf(p) ==
  CASE p.type = "Symbol" -> {p.name}
    [] p.type \in {"Alt", "Seq", "SeqAt"} ->
         UNION {SymbolsOf(p.parsers[i]) : i \in 1..Len(p.parsers)}
    [] p.type \in {"Optional", "Many", "WithAction"} -> SymbolsOf(p.inner)
    [] p.type \in {"SepBy", "EndBy"} -> SymbolsOf(p.inner) \cup SymbolsOf(p.sep)
    [] p.type = "ManyTill" -> SymbolsOf(p.inner) \cup SymbolsOf(p.terminator)
    [] OTHER -> {}

\* Every symbol p or the table refers to is defined.
AllDefined(p) ==
  /\ SymbolsOf(p) \subseteq DOMAIN symbols
  /\ \A n \in DOMAIN symbols : SymbolsOf(symbols[n]) \subseteq DOMAIN symbols

\* C2: with every referenced symbol defined, Parse returns a stream or a
\* parse error and never panics.
C2_NeverPanics ==
  (ret.op = "Parse" /\ AllDefined(ret.parser)) => ret.ctl # "panic"

IncompleteParse == "incomplete parse, expected EOF but input remains"

\* C3: the driver returns a value with a nil error only if the start parser
\* succeeded at EOF; on leftover input it returns no value and the
\* incomplete-parse error; on failure no value and the parser's own error.
C3_DriverRequiresEOF ==
  (ret.op = "ParseStringWith" /\ ret.startSym \in DOMAIN symbols) =>
    LET r == Apply(symbols[ret.startSym], NewStream(Filename, ret.str))
    IN /\ (ret.ctl = "return" /\ ret.err = NoErr) =>
             /\ Succeeded(r)
             /\ r.stream.pos = Len(ret.str)
             /\ ret.value = r.stream.value
       /\ (Succeeded(r) /\ r.stream.pos < Len(ret.str)) =>
             /\ ret.ctl = "return"
             /\ ret.value = NilValue
             /\ ret.err # NoErr
             /\ ret.err.message = IncompleteParse
             /\ ret.err.expected = <<>>
       /\ Failed(r) =>
             /\ ret.ctl = "return"
             /\ ret.value = NilValue
             /\ ret.err = r.err

\* The start parser succeeded and left input: the driver reported it.
C3_Witness ==
  /\ ret.op = "ParseStringWith"
  /\ ret.startSym \in DOMAIN symbols
  /\ LET r == Apply(symbols[ret.startSym], NewStream(Filename, ret.str))
     IN Succeeded(r) /\ r.stream.pos > 0 /\ r.stream.pos < Len(ret.str)
  /\ ret.err # NoErr

\* The index (from 0) of the last '\n' in str[0:k], or -1.
LastNewlineIndex(str, k) ==
  LET at == {i \in 0..(k - 1) : str[i + 1] = NL}
  IN IF at = {} THEN -1 ELSE CHOOSE i \in at : \A j \in at : j <= i

\* C4: the column of the stream at offset k is k - lastNewlineIndex - 1.
C4_ColumnTracksOffset ==
  ps # NoStream => ps.col = ps.pos - LastNewlineIndex(ps.str, ps.pos) - 1

\* The results of Alt's children, each applied to the stream Alt was given.
ChildResults == [i \in 1..Len(ret.parser.parsers) |-> Apply(ret.parser.parsers[i], ps)]

\* C5: Alt is ordered choice with backtracking: the result is the stream of
\* the first child that succeeds on the entry stream, whatever a later
\* child would match.
C5_AltFirstSuccess ==
  IsParse("Alt") =>
    \A i \in 1..Len(ret.parser.parsers) :
      (Succeeded(ChildResults[i]) /\ \A j \in 1..(i - 1) : Failed(ChildResults[j])) =>
        (Succeeded(ret) /\ ret.stream = ChildResults[i].stream)

\* Alt returned its second child's stream after the first child failed,
\* though a later child matches a longer prefix.
C5_Witness ==
  /\ IsParse("Alt")
  /\ Succeeded(ret)
  /\ \E i, j \in 1..Len(ret.parser.parsers) :
       /\ 1 < i /\ i < j
       /\ Failed(ChildResults[1])
       /\ ret.stream = ChildResults[i].stream
       /\ Succeeded(ChildResults[j])
       /\ ChildResults[j].stream.pos > ret.stream.pos

RECURSIVE Flatten(_)
\* The concatenation of a sequence of sequences.
Flatten(ss) ==
  IF ss = <<>> THEN <<>> ELSE Flatten(SubSeq(ss, 1, Len(ss) - 1)) \o ss[Len(ss)]

\* C6: when every child fails (also when there is none), Alt fails at its
\* entry location with an empty message and the children's expected lists
\* concatenated in child order.
C6_AltMergesExpected ==
  (IsParse("Alt") /\ \A i \in 1..Len(ret.parser.parsers) : Failed(ChildResults[i])) =>
    /\ Failed(ret)
    /\ ret.err.loc = Loc(ps)
    /\ ret.err.message = ""
    /\ ret.err.expected =
         Flatten([i \in 1..Len(ret.parser.parsers) |-> ChildResults[i].err.expected])

\* Alt failed away from the start of the input with expectations merged
\* from two children.
C6_Witness ==
  /\ IsParse("Alt")
  /\ Failed(ret)
  /\ ps.pos > 0
  /\ Len(ret.err.expected) >= 2
  /\ \A i \in 1..Len(ret.parser.parsers) : Len(ChildResults[i].err.expected) = 1

\* C7: Optional never returns an error: it returns p's stream when p
\* succeeds, and the entry stream with value nil when p fails.
C7_OptionalNeverFails ==
  IsParse("Optional") =>
    LET r == Apply(ret.parser.inner, ps)
    IN /\ ret.err = NoErr
       /\ ~Failed(ret)
       /\ Succeeded(r) => (Succeeded(ret) /\ ret.stream = r.stream)
       /\ Failed(r) =>
            /\ Succeeded(ret)
            /\ ret.stream.pos = ps.pos
            /\ ret.stream.value = NilValue
            /\ Loc(ret.stream) = Loc(ps)

\* The inner literal matched its first byte and then failed; Optional
\* succeeded where it was entered.
C7_Witness ==
  /\ IsParse("Optional")
  /\ ret.parser.inner.type = "Literal"
  /\ Len(ret.parser.inner.target) > 1
  /\ ~StreamHead(ps).eof
  /\ StreamHead(ps).b = ret.parser.inner.target[1]
  /\ Failed(Apply(ret.parser.inner, ps))
  /\ Succeeded(ret)

RECURSIVE Thread(_, _, _)
\* The results of the children applied left to right from s, each to the
\* stream its predecessor returned, up to the first that does not succeed.
Thread(parsers, s, i) ==
  IF i > Len(parsers) THEN <<>>
  ELSE LET r == Apply(parsers[i], s)
       IN IF Succeeded(r) THEN <<r>> \o Thread(parsers, r.stream, i + 1) ELSE <<r>>

\* C8: Seq threads the stream through its children left to right; its value
\* is the list of the n child values, SeqAt's the value of child index; a
\* child's failure is returned unchanged and no later child is run.
C8_SeqThreadsChildren ==
  (ret.op = "Parse" /\ ret.parser.type \in {"Seq", "SeqAt"}) =>
    LET kids == ret.parser.parsers
        rs == Thread(kids, ps, 1)
        n == Len(kids)
    IN IF Len(rs) = n /\ (n = 0 \/ Succeeded(rs[n]))
         THEN /\ Succeeded(ret)
              /\ ret.stream.pos = IF n = 0 THEN ps.pos ELSE rs[n].stream.pos
              /\ ret.stream.value =
                   IF ret.parser.type = "Seq"
                     THEN ListValue([i \in 1..n |-> rs[i].stream.value])
                     ELSE rs[ret.parser.index + 1].stream.value
         ELSE LET bad == rs[Len(rs)]
              IN /\ Failed(bad) => (Failed(ret) /\ ret.err = bad.err)
                 /\ ~Returned(bad) => ret.ctl = bad.ctl

\* A child after the first failed on a later line than Seq was entered on,
\* and Seq returned that child's error.
C8_Witness ==
  /\ IsParse("Seq")
  /\ Failed(ret)
  /\ Len(Thread(ret.parser.parsers, ps, 1)) > 1
  /\ ret.err.loc.Line > ps.line

RECURSIVE Terminated(_, _, _, _, _)
\* (p sep)* from s: the values of the elements a separator followed, and the
\* stream after the last of those separators.
Terminated(inner, sep, s, values, n) ==
  IF n = 0 THEN [values |-> values, end |-> s]
  ELSE LET r == Apply(inner, s)
       IN IF ~Succeeded(r) THEN [values |-> values, end |-> s]
          ELSE LET r2 == Apply(sep, r.stream)
               IN IF ~Succeeded(r2) THEN [values |-> values, end |-> s]
                  ELSE Terminated(inner, sep, r2.stream,
                                  Append(values, r.stream.value), n - 1)

\* C9: on success EndBy's list holds exactly the elements a terminator
\* followed (at least min of them) and the stream is right after the last
\* terminator.
C9_EndByRequiresTerminator ==
  (IsParse("EndBy") /\ Succeeded(ret)) =>
    LET t == Terminated(ret.parser.inner, ret.parser.sep, ps, <<>>, MaxFuel)
    IN /\ ret.stream.value = ListValue(t.values)
       /\ ret.stream.pos = t.end.pos
       /\ Len(t.values) >= ret.parser.min

\* C10: AddAction on a defined name wraps the entry and returns; on an
\* undefined name it panics and leaves the table as it was.
C10_AddActionReturns ==
  ret.op = "AddAction" =>
    IF ret.name \in DOMAIN ret.before
      THEN /\ ret.ctl = "return"
           /\ symbols = SetSymbol(ret.before, ret.name,
                          parserWithAction(ret.before[ret.name], ret.action))
      ELSE /\ ret.ctl = "panic"
           /\ symbols = ret.before

RECURSIVE Greedy(_, _, _, _)
\* p applied again and again from s until it does not succeed: the values of
\* the successes, the stream after the last of them, and the result that
\* ended the run.
Greedy(inner, s, values, n) ==
  LET r == Apply(inner, s)
  IN IF n = 0 \/ ~Succeeded(r) THEN [values |-> values, end |-> s, stop |-> r]
     ELSE Greedy(inner, r.stream, Append(values, r.stream.value), n - 1)

\* C11: ManyMin(p, n) applies p until its first failure.  With at least n
\* successes it returns the stream after the last success holding the list of
\* their values; with fewer it fails with the message "minimum <n>", the
\* expected list of the failing application and the location at which that
\* application started.  Many, with n = 0, never fails.
C11_ManyMinGreedy ==
  (IsParse("Many") /\ ret.parser.capture) =>
    LET run == Greedy(ret.parser.inner, ps, <<>>, MaxFuel)
    IN /\ Failed(run.stop) =>
            IF Len(run.values) >= ret.parser.min
              THEN /\ Succeeded(ret)
                   /\ ret.stream = SetValue(run.end, ListValue(run.values))
              ELSE /\ Failed(ret)
                   /\ ret.err.message = "minimum " \o ToString(ret.parser.min)
                   /\ ret.err.expected = run.stop.err.expected
                   /\ ret.err.loc = Loc(run.end)
       /\ (ret.parser.min = 0 /\ Returned(ret)) => Succeeded(ret)

\* ManyMin(p, 2) fails after one success that consumed a newline: the failing
\* application started on line 2 and expected two things.
C11_Witness ==
  /\ IsParse("Many") /\ ret.parser.capture /\ ret.parser.min = 2
  /\ Failed(ret)
  /\ ps.line = 1 /\ ret.err.loc.Line = 2
  /\ Len(ret.err.expected) = 2

RECURSIVE Until(_, _, _, _, _)
\* The iterations of ManyTill from s: at each position the terminator is
\* applied, and the body only where the terminator did not succeed.  at is
\* the position of the last iteration, term and body are what the two
\* parsers returned there (body is term where the body was not run).
Until(inner, term, s, values, n) ==
  LET tr == Apply(term, s)
  IN IF n = 0 \/ ~Failed(tr)
       THEN [values |-> values, at |-> s, term |-> tr, body |-> tr]
     ELSE LET r == Apply(inner, s)
          IN IF ~Succeeded(r)
               THEN [values |-> values, at |-> s, term |-> tr, body |-> r]
               ELSE Until(inner, term, r.stream, Append(values, r.stream.value), n - 1)

\* C12: ManyTill is not greedy: it returns at the first position at which the
\* terminator succeeds, also where the body would succeed too; the stream is
\* the one after the terminator and the value is the list of the body's
\* values, without the terminator's.
C12_ManyTillStopsAtTerminator ==
  IsParse("ManyTill") =>
    LET u == Until(ret.parser.inner, ret.parser.terminator, ps, <<>>, MaxFuel)
    IN /\ Succeeded(u.term) =>
            /\ Succeeded(ret)
            /\ ret.stream = SetValue(u.term.stream, ListValue(u.values))
       /\ Succeeded(ret) => Succeeded(u.term)

\* ManyTill returned at a terminator the body would have matched as well,
\* after at least one body value, with input left.
C12_Witness ==
  /\ IsParse("ManyTill") /\ Succeeded(ret)
  /\ Len(ret.stream.value.l) >= 1
  /\ ret.stream.pos < Len(ps.str)
  /\ LET u == Until(ret.parser.inner, ret.parser.terminator, ps, <<>>, MaxFuel)
     IN Succeeded(Apply(ret.parser.inner, u.at))

\* C19: when at some iteration the terminator fails and the body fails too,
\* ManyTill returns no stream and a parse error located at the stream that
\* iteration was entered with.
C19_ManyTillReportsFailure ==
  IsParse("ManyTill") =>
    LET u == Until(ret.parser.inner, ret.parser.terminator, ps, <<>>, MaxFuel)
    IN (Failed(u.term) /\ Failed(u.body)) =>
         /\ Failed(ret)
         /\ ret.err.loc = Loc(u.at)

\* C20: when the first application of p fails, SepBy1 and EndBy1 return no
\* stream and a parse error, which carries a location; they do not panic.
C20_MinimumReportsFailure ==
  (/\ ret.op = "Parse"
   /\ ret.parser.type \in {"SepBy", "EndBy"}
   /\ ret.parser.min = 1
   /\ Failed(Apply(ret.parser.inner, ps))) =>
    /\ Failed(ret)
    /\ ret.err # NoErr
    /\ ret.err.loc.Filename = ps.filename

\* The node s as it is before any Tail() was called on it.
Uncached(s) == [s EXCEPT !.tail = NoStream]

\* What a caller observes of a result: how the call ended, the error, and the
\* stream's buffer, position, line, column and value.
Outcome(r) ==
  [ctl |-> r.ctl, err |-> r.err,
   stream |-> IF r.stream = NoStream THEN NoStream ELSE Uncached(r.stream)]

RECURSIVE FreshWalk(_, _)
\* The node k calls of Tail() reach from s when no tail is cached.
FreshWalk(s, k) == IF k = 0 THEN s ELSE FreshWalk(NewTail(s), k - 1)

C14_PositionInvariant ==
  ret.op = "Parse" =>
    /\ Succeeded(ret) =>
         /\ ps.pos <= ret.stream.pos
         /\ ret.stream.pos <= Len(ret.stream.str)
         /\ ret.stream.str = ps.str
    /\ ret.panic # IndexOutOfRange.panic

\* A repetition consumed the rest of the input, so that its body was applied
\* once more at EOF.
C14_Witness ==
  /\ IsParse("Many") /\ Succeeded(ret)
  /\ ret.parser.inner.type = "AnyChar"
  /\ ret.stream.pos = Len(ps.str) /\ ret.stream.pos >= ps.pos + 2

RECURSIVE Listed(_, _)
\* The first n fragments in list order, ", " between neighbours.
Listed(xs, n) == IF n = 1 THEN xs[1] ELSE Listed(xs, n - 1) \o ", " \o xs[n]

\* C15: Error() renders "<file> line L col C" followed by ": <message>" when
\* nothing is expected, by ": expected <e0>" or ": <message>, expected <e0>"
\* for one expected fragment, and by ": expected one of <e0>, <e1>, ..." or
\* ": <message>, expected one of <e0>, <e1>, ..." for two or more.
C15_ErrorRendering ==
  ret.op = "Error" =>
    LET e == ret.err
        n == Len(e.expected)
        where == e.loc.Filename \o " line " \o ToString(e.loc.Line)
                   \o " col " \o ToString(e.loc.Col)
        what == CASE n = 0 -> ": " \o e.message
                  [] n = 1 /\ e.message = "" -> ": expected " \o e.expected[1]
                  [] n = 1 /\ e.message # "" ->
                       ": " \o e.message \o ", expected " \o e.expected[1]
                  [] n >= 2 /\ e.message = "" ->
                       ": expected one of " \o Listed(e.expected, n)
                  [] n >= 2 /\ e.message # "" ->
                       ": " \o e.message \o ", expected one of " \o Listed(e.expected, n)
    IN ret.text = where \o what

\* Error() was called on an error with a message and two expected fragments.
C15_Witness ==
  /\ ret.op = "Error"
  /\ ret.err.message # ""
  /\ Len(ret.err.expected) >= 2
  /\ ret.err.loc.Line = 2

\* C16: on an input without a newline every error the driver returns is
\* located at line 1, col 0, at whatever offset the parse failed.
C16_ErrorsAtColumnZero ==
  (/\ ret.op = "ParseStringWith"
   /\ ret.ctl = "return"
   /\ ret.err # NoErr
   /\ \A i \in 1..Len(ret.str) : ret.str[i] # NL) =>
    /\ ret.err.loc.Line = 1
    /\ ret.err.loc.Col = 0

\* The driver returned an error located at offset 2 or later of an input
\* without a newline: the start parser stopped there, before EOF.
C16_Witness ==
  /\ ret.op = "ParseStringWith" /\ ret.ctl = "return"
  /\ ret.startSym \in DOMAIN symbols
  /\ \A i \in 1..Len(ret.str) : ret.str[i] # NL
  /\ ret.err # NoErr
  /\ ret.err.message = IncompleteParse
  /\ Apply(symbols[ret.startSym], NewStream(Filename, ret.str)).stream.pos >= 2

\* The predicate of a single-byte parser on the byte b.
Accepts(p, b) ==
  CASE p.type = "AnyChar" -> TRUE
    [] p.type = "OneOf" -> \E i \in 1..Len(p.options) : p.options[i] = b
    [] p.type = "NoneOf" -> \A i \in 1..Len(p.blacklist) : p.blacklist[i] # b
    [] p.type = "Range" -> p.lo <= b /\ b <= p.hi

\* C17: AnyChar, OneOf, NoneOf and Range succeed exactly when the stream is
\* not at EOF and their predicate holds of the next byte b; they then advance
\* by one byte with the value b.  Otherwise they consume nothing and return
\* an error at the location of the entry stream.
C17_SingleBytePrimitives ==
  (ret.op = "Parse" /\ ret.parser.type \in {"AnyChar", "OneOf", "NoneOf", "Range"}) =>
    IF ps.pos < Len(ps.str) /\ Accepts(ret.parser, ps.str[ps.pos + 1])
      THEN /\ Succeeded(ret)
           /\ ret.stream.pos = ps.pos + 1
           /\ ret.stream.value = ByteValue(ps.str[ps.pos + 1])
      ELSE /\ Failed(ret)
           /\ ret.err.loc = Loc(ps)

\* Range accepted the byte that equals its upper end, below which it has
\* other bytes, on the second line of the input.
C17_Witness ==
  /\ IsParse("Range") /\ Succeeded(ret)
  /\ ret.parser.lo < ret.parser.hi
  /\ ret.stream.value = ByteValue(ret.parser.hi)
  /\ ps.line = 2

\* C18: Alt is associative: Alt(Alt(a, b), c) and Alt(a, b, c) succeed on the
\* same streams with the same returned stream and value, and where they fail
\* both return an error at the same location with the same expected list.
C18_AltAssociative ==
  (/\ IsParse("Alt")
   /\ Len(ret.parser.parsers) = 2
   /\ ret.parser.parsers[1].type = "Alt") =>
    LET flat == Apply(Alt(ret.parser.parsers[1].parsers \o <<ret.parser.parsers[2]>>), ps)
    IN /\ ret.ctl = flat.ctl
       /\ Succeeded(ret) <=> Succeeded(flat)
       /\ Succeeded(flat) => ret.stream = flat.stream
       /\ Failed(flat) =>
            /\ ret.err.loc = flat.err.loc
            /\ ret.err.expected = flat.err.expected

\* Alt(Alt(a, b), c) failed where a, b and c each expected something.
C18_Witness ==
  /\ IsParse("Alt") /\ Failed(ret)
  /\ Len(ret.parser.parsers) = 2
  /\ ret.parser.parsers[1].type = "Alt"
  /\ Len(ret.parser.parsers[1].parsers) = 2
  /\ Len(ret.err.expected) = 3

\* Whether the k-th byte of the target matches the k-th byte from s on.
MatchesAt(p, s, k) ==
  /\ s.pos + k <= Len(s.str)
  /\ IF p.type = "LiteralIC"
       THEN ToUpper(p.target[k]) = ToUpper(s.str[s.pos + k])
       ELSE p.target[k] = s.str[s.pos + k]

\* The number of leading bytes of the target that match the input from s on.
Matched(p, s) ==
  LET ks == {k \in 0..Len(p.target) : \A i \in 1..k : MatchesAt(p, s, i)}
  IN CHOOSE k \in ks : \A j \in ks : j <= k

\* The newlines among the first k bytes from s on.
NewlinesIn(s, k) == Cardinality({i \in 1..k : s.str[s.pos + i] = NL})

\* C21 as stated: a failing Literal or LiteralIC expects exactly
\* "literal '<s>'" and reports the location of the stream it was entered
\* with, however many leading bytes matched.
C21_LiteralFailsAtEntry ==
  ((IsParse("Literal") \/ IsParse("LiteralIC")) /\ Failed(ret)) =>
    /\ ret.err.expected = <<"literal '" \o Str(ret.parser.target) \o "'">>
    /\ ret.err.loc = Loc(ps)

\* C21 amended: a Literal or LiteralIC fails exactly when fewer bytes match
\* than the target has; the error expects exactly "literal '<s>'", has no
\* message, and reports the location of the stream at the first unmatched
\* byte: the entry line plus the newlines of the matched prefix, and the
\* entry column unless a newline was matched.
C21_LiteralFailsAtMismatch ==
  (IsParse("Literal") \/ IsParse("LiteralIC")) =>
    LET k == Matched(ret.parser, ps)
        n == NewlinesIn(ps, k)
    IN /\ Failed(ret) <=> k < Len(ret.parser.target)
       /\ Failed(ret) =>
            /\ ret.err.expected = <<"literal '" \o Str(ret.parser.target) \o "'">>
            /\ ret.err.message = ""
            /\ ret.err.loc = [Filename |-> ps.filename, Line |-> ps.line + n,
                              Col |-> IF n = 0 THEN ps.col ELSE 0]

\* A literal failed after its first byte, a newline, had matched.
C21_Witness ==
  /\ IsParse("Literal") /\ Failed(ret)
  /\ Matched(ret.parser, ps) >= 1
  /\ ret.err.loc.Line = ps.line + 1

\* 1 + the number of newlines in str[0:k].
LineAt(str, k) == 1 + Cardinality({i \in 1..k : str[i] = NL})

RECURSIVE ChainLines(_)
\* Every node of the chain of cached tails from s on, as far as it lies
\* within the buffer, is on the line of its offset.
ChainLines(s) ==
  \/ s = NoStream
  \/ s.pos > Len(s.str)
  \/ s.line = LineAt(s.str, s.pos) /\ ChainLines(s.tail)

\* C22: the stream at offset k, reached by Tail() from the driver's initial
\* stream, is on line 1 + the number of newlines in input[0:k]: the node the
\* client holds, the tails cached behind it, and the copy a parser took by
\* SetValue of the node its traversal reached.
C22_LineCountsNewlines ==
  /\ ChainLines(ps)
  /\ (ret.op = "Parse" /\ Succeeded(ret)) =>
       ret.stream.line = LineAt(ret.stream.str, ret.stream.pos)

\* A parser entered on line 1 over cached tails returned a copy with a
\* value on line 3.
C22_Witness ==
  /\ ret.op = "Parse" /\ Succeeded(ret)
  /\ ps.line = 1 /\ ps.tail # NoStream
  /\ ret.stream.line = 3
  /\ ret.stream.value # NilValue

RECURSIVE Reaches(_, _)
\* The names a parser refers to through at most n symbols of the table.
Reaches(p, n) ==
  LET direct == SymbolsOf(p)
  IN IF n = 0 THEN direct
     ELSE direct \cup UNION {Reaches(symbols[m], n - 1) : m \in direct \cap DOMAIN symbols}

\* No symbol of the table refers to itself, directly or through others: the
\* grammar has no recursion at all, so none to the left.
NoRecursion ==
  \A n \in DOMAIN symbols : n \notin Reaches(symbols[n], Cardinality(DOMAIN symbols))

\* C23: with every symbol defined and no left recursion, Parse and the
\* driver terminate on every input: every call ends with a result, also the
\* call of a repetition whose body succeeds without consuming input.
C23_ParseTerminates ==
  (/\ ret.op \in {"Parse", "ParseStringWith"}
   /\ NoRecursion
   /\ ret.op = "Parse" => AllDefined(ret.parser)
   /\ ret.op = "ParseStringWith" =>
        (ret.startSym \in DOMAIN symbols /\ AllDefined(symbols[ret.startSym]))) =>
    ret.ctl # "hang"

\* C24: every parse error the driver returns has a message or expects
\* something, so the text Error() renders of it does not end with the bare
\* prefix "<file> line L col C: ".
C24_ErrorsInformative ==
  /\ (ret.op = "ParseStringWith" /\ ret.ctl = "return" /\ ret.err # NoErr) =>
       (ret.err.message # "" \/ ret.err.expected # <<>>)
  /\ ret.op = "Error" =>
       ret.text # ret.err.loc.Filename \o " line " \o ToString(ret.err.loc.Line)
                    \o " col " \o ToString(ret.err.loc.Col) \o ": "

====
